---- MODULE Spec2Model ----
(***************************************************************************)
(* Model of the Atlas prompt automation (runAtlasPrompt, canUseAtlas and   *)
(* their helpers) and of the Matrix sync-list sanitizer                    *)
(* (sanitizeUserIdList).                                                   *)
(*                                                                         *)
(* Strings whose content the code inspects (trim, emptiness) are modelled  *)
(* as sequences of one-character strings; optional strings as records      *)
(* [def, s].  Time is in milliseconds, `now` being Date.now() counted from *)
(* the start of the current call; the clock is taken to be monotonic.      *)
(***************************************************************************)
EXTENDS Integers, Sequences, FiniteSets, TLC

VARIABLES
    pc,            \* position of the current call ("idle", an await point, "done")
    fn,            \* the exported function being executed
    options,       \* the argument record of the current call
    env,           \* process.env as seen by canUseAtlas
    now,           \* Date.now()
    start,         \* runAtlasPrompt: const start
    profile,       \* runAtlasPrompt: const profile
    pwModule,      \* runAtlasPrompt: const pwModule
    status,        \* ensureAtlasCdpUrl: let status (kept until the page is retrieved)
    cdpUrl,        \* runAtlasPrompt: const cdpUrl
    statusCalls,   \* number of browserStatus calls made
    startCalls,    \* number of browserStart calls made
    pageOpen,      \* the page created by createPageViaPlaywright is open
    openCalls,     \* number of pages opened
    closeCalls,    \* number of closePageByTargetIdViaPlaywright calls made
    deadline,      \* findPromptInput: const deadline
    selIdx,        \* findPromptInput: index of the selector of the current iteration
    timeout,       \* findPromptInput: const timeout of the current iteration
    probed,        \* selectors on which waitFor was called, in order
    input,         \* runAtlasPrompt: const input (index of the selector found, 0 = none)
    baselineCount, \* runAtlasPrompt: const baselineCount
    filled,        \* input.fill resolved
    canClick,      \* clickSend: const canClick
    clicks,        \* number of sendButton.click() calls
    presses,       \* number of input.press("Enter") calls
    sendFailed,    \* clickSend: the click or the keypress rejected
    waitTimedOut,  \* waitForAssistantMessage: page.waitForFunction rejected
    count,         \* waitForAssistantMessage: const count
    message,       \* runAtlasPrompt: const message (index into the message list, -1 = none)
    rsStart,       \* readStableText: const start
    last,          \* readStableText: let last
    stableTicks,   \* readStableText: let stableTicks
    samples,       \* the trimmed samples readStableText has taken, in order
    rsResult,      \* how readStableText completed
    closeFailed,   \* the close of the page was requested and rejected
    outcome,       \* what the current call returned or threw
    listArg,       \* sanitizeUserIdList: input
    warnings,      \* messages passed to warn, in order
    syncArgs,      \* updateSyncData wrapper: the arguments it was called with
    forwarded,     \* the argument lists originalUpdateSyncData was called with, in order
    underlying     \* how originalUpdateSyncData completed

vars == << pc, fn, options, env, now, start, profile, pwModule, status, cdpUrl,
           statusCalls, startCalls, pageOpen, openCalls, closeCalls, deadline,
           selIdx, timeout, probed, input, baselineCount, filled, canClick,
           clicks, presses, sendFailed, waitTimedOut, count, message, rsStart, last,
           stableTicks, samples, rsResult, closeFailed, outcome, listArg, warnings,
           syncArgs, forwarded, underlying >>

----------------------------------------------------------------------------
(* Bounds of the model *)

\* largest number of assistant messages the page shows
MaxMessages == 1
\* longest array handed to sanitizeUserIdList
MaxListLen == 2

----------------------------------------------------------------------------
(* Strings *)

Min(a, b) == IF a < b THEN a ELSE b
Max(a, b) == IF a > b THEN a ELSE b

\* String.prototype.trim on a sequence of characters
RECURSIVE TrimStart(_)
TrimStart(s) ==
    IF s # << >> /\ Head(s) = " " THEN TrimStart(Tail(s)) ELSE s

RECURSIVE TrimEnd(_)
TrimEnd(s) ==
    IF s # << >> /\ s[Len(s)] = " " THEN TrimEnd(SubSeq(s, 1, Len(s) - 1)) ELSE s

Trim(s) == TrimEnd(TrimStart(s))

\* an optional string: undefined, or a string
Undef == [def |-> FALSE, s |-> << >>]
Str(s) == [def |-> TRUE, s |-> s]

\* x?.trim() followed by ||: undefined and "" are both falsy
OptTrim(x) == IF x.def THEN Trim(x.s) ELSE << >>

----------------------------------------------------------------------------
(* Outcomes and errors *)

NoError == [name |-> "none", message |-> << >>]
NoOutcome == [kind |-> "none", value |-> << >>, error |-> NoError]
Returned(v) == [kind |-> "return", value |-> v, error |-> NoError]
Thrown(e) == [kind |-> "throw", value |-> << >>, error |-> e]

\* new AtlasUnavailableError(message); the message is kept as its parts
AtlasUnavailableError(parts) == [name |-> "AtlasUnavailableError", message |-> parts]

\* a fault raised by a collaborator; String(err) is its description
Faults == {"Error: connection closed"}
RawFault(f) == [name |-> "Error", message |-> << f >>]
StringOf(err) == err.message[1]

IsUnavailable(o) == o.kind = "throw" /\ o.error.name = "AtlasUnavailableError"

----------------------------------------------------------------------------
(* Profile resolution and the availability gate *)

NullProfile == [isNull |-> TRUE, name |-> "none", cdpUrl |-> Undef]
Profile(url) == [isNull |-> FALSE, name |-> "atlas", cdpUrl |-> url]

\* connection URLs a status may report, and last-known URLs a profile may carry
UrlChoices == { Undef, Str(<< " " >>), Str(<< " ", "u" >>) }
ProfileUrlChoices == { Undef, Str(<< "p", " " >>) }

\* what resolveBrowserConfig / resolveProfile make of a configuration
Configs ==
    { [resolve |-> r, cdpUrl |-> Undef] : r \in {"throws", "disabled", "noProfile"} }
    \cup { [resolve |-> "ok", cdpUrl |-> u] : u \in ProfileUrlChoices }

resolveAtlasProfile(config) ==
    CASE config.resolve = "throws" -> Thrown(RawFault("Error: invalid browser config"))
      [] config.resolve = "disabled" -> Returned(NullProfile)
      [] config.resolve = "noProfile" -> Returned(NullProfile)
      [] OTHER -> Returned(Profile(config.cdpUrl))

\* values of an environment variable: unset, empty, set
EnvChoices == { Undef, Str(<< >>), Str(<< "1" >>) }
NodeEnvChoices == { Undef, Str(<< "test" >>), Str(<< "production" >>) }
Truthy(x) == x.def /\ x.s # << >>

Envs == [NODE_ENV : NodeEnvChoices, VITEST : EnvChoices,
         VITEST_WORKER_ID : EnvChoices, JEST_WORKER_ID : EnvChoices]

\* options?.sandboxed: absent, false, true
SandboxedChoices == {"undefined", "false", "true"}
IsSandboxed(opts) == opts.sandboxed = "true"

TestEnvironment(e) ==
    \/ (e.NODE_ENV.def /\ e.NODE_ENV.s = << "test" >>)
    \/ Truthy(e.VITEST)
    \/ Truthy(e.VITEST_WORKER_ID)
    \/ Truthy(e.JEST_WORKER_ID)

\* mutant: the resolution error is not caught
canUseAtlasUncaught(opts, e) ==
    IF TestEnvironment(e) THEN Returned(FALSE)
    ELSE IF IsSandboxed(opts) THEN Returned(FALSE)
    ELSE LET r == resolveAtlasProfile(opts.config) IN
         IF r.kind = "throw" THEN r
         ELSE Returned(~r.value.isNull)

canUseAtlas(opts, e) ==
    IF TestEnvironment(e) THEN Returned(FALSE)
    ELSE IF IsSandboxed(opts) THEN Returned(FALSE)
    ELSE LET r == resolveAtlasProfile(opts.config) IN
         IF r.kind = "throw" THEN Returned(FALSE)
         ELSE Returned(~r.value.isNull)

----------------------------------------------------------------------------
(* The sync-list sanitizer *)

\* entries of a device list as the server may send them
StrV(s) == [t |-> "string", s |-> s]
OtherV(t) == [t |-> t, s |-> << >>]
Entries == { StrV(<< "a" >>), StrV(<< " ", "b" >>), StrV(<< >>), StrV(<< " " >>),
             OtherV("number"), OtherV("object") }

Arrays == UNION { [1..k -> Entries] : k \in 0..MaxListLen }

\* typeof of the non-array inputs; null has typeof "object"
NonArrayKinds == {"null", "undefined", "object", "string", "number", "boolean"}
TypeOf(v) == IF v.t \in {"null", "array"} THEN "object" ELSE v.t

ArrayV(items) == [t |-> "array", items |-> items]
NonArrayV(k) == [t |-> k, items |-> << >>]

\* mutant: the entry is not trimmed before its length is tested
ValidEntryNoTrim(entry) == entry.t = "string" /\ Len(entry.s) > 0

\* the predicate of input.filter
ValidEntry(entry) == entry.t = "string" /\ Len(Trim(entry.s)) > 0

RECURSIVE Filter(_)
Filter(items) ==
    IF items = << >> THEN << >>
    ELSE IF ValidEntry(Head(items)) THEN << Head(items) >> \o Filter(Tail(items))
    ELSE Filter(Tail(items))

NotArrayWarning(label, got) == [kind |-> "notArray", label |-> label, n |-> 0, got |-> got]
DroppingWarning(label, n) == [kind |-> "dropping", label |-> label, n |-> n, got |-> "none"]

\* mutant: null is compared strictly, so undefined falls through to the array check
sanitizeUserIdListStrictNull(in, label) ==
    IF in.t = "null" THEN [list |-> << >>, warns |-> << >>]
    ELSE IF in.t # "array"
    THEN [list |-> << >>, warns |-> << NotArrayWarning(label, TypeOf(in)) >>]
    ELSE LET filtered == Filter(in.items) IN
         [list |-> filtered,
          warns |-> IF Len(filtered) # Len(in.items)
                    THEN << DroppingWarning(label, Len(in.items) - Len(filtered)) >>
                    ELSE << >>]

\* the list returned and the warnings emitted, in order
sanitizeUserIdList(in, label) ==
    IF in.t \in {"null", "undefined"} THEN [list |-> << >>, warns |-> << >>]
    ELSE IF in.t # "array"
    THEN [list |-> << >>, warns |-> << NotArrayWarning(label, TypeOf(in)) >>]
    ELSE LET filtered == Filter(in.items) IN
         [list |-> filtered,
          warns |-> IF Len(filtered) # Len(in.items)
                    THEN << DroppingWarning(label, Len(in.items) - Len(filtered)) >>
                    ELSE << >>]

----------------------------------------------------------------------------
(* Program constants, in milliseconds unless said otherwise *)

MinDeadlineMs == 2000
MaxProbeMs == 2500
MinProbeMs == 500
MinReplyWaitMs == 2000
PollMs == 400
StableTicksNeeded == 3
LoadStateTimeoutMs == 15000
MaxFillMs == 10000

selectors == << "textarea#prompt-textarea", "textarea[data-testid=prompt-textarea]",
                "textarea[placeholder*=Message]", "textarea" >>

----------------------------------------------------------------------------
(* Inputs and collaborator answers *)

\* timeout budgets handed to runAtlasPrompt, and its sandboxed flag
TimeoutChoices == {0, 1300}
RunSandboxedChoices == {"undefined", "true"}

\* what getPwAiModule({mode: "soft"}) resolves to
Module(c, g, cl) == [isNull |-> FALSE, hasCreate |-> c, hasGetPage |-> g, hasClose |-> cl]
NullModule == [isNull |-> TRUE, hasCreate |-> FALSE, hasGetPage |-> FALSE, hasClose |-> FALSE]
ModuleChoices == { NullModule, Module(TRUE, FALSE, TRUE), Module(TRUE, TRUE, TRUE),
                   Module(TRUE, TRUE, FALSE) }

\* what browserStatus resolves to
NoStatus == [running |-> FALSE, cdpUrl |-> Undef]
StatusChoices == [running : BOOLEAN, cdpUrl : UrlChoices]

\* rendered text of the assistant message before trimming
RawTexts == { << >>, << " " >>, << "a" >>, << "a", " " >>, << "b" >> }

----------------------------------------------------------------------------
(* The updateSyncData wrapper: values *)

\* the three arguments the wrapper does not look at
SyncHeads ==
    { [toDeviceMessages |-> "m1", otkCounts |-> "c1", unusedFallbackKeyAlgs |-> "k1"],
      [toDeviceMessages |-> "m2", otkCounts |-> "c2", unusedFallbackKeyAlgs |-> "k2"] }

SyncCall(head, changed, left) ==
    [toDeviceMessages |-> head.toDeviceMessages, otkCounts |-> head.otkCounts,
     unusedFallbackKeyAlgs |-> head.unusedFallbackKeyAlgs,
     changedDeviceLists |-> changed, leftDeviceLists |-> left]

NoSyncArgs ==
    [toDeviceMessages |-> "none", otkCounts |-> "none", unusedFallbackKeyAlgs |-> "none",
     changedDeviceLists |-> NonArrayV("undefined"),
     leftDeviceLists |-> NonArrayV("undefined")]

NoUnderlying == [kind |-> "none", error |-> NoError]

\* what originalUpdateSyncData may reject with: a string, an Error, or another
\* value; name is the kind of value, message its text in parts
Signature == "Expect value to be String"
SyncErrors ==
    { [name |-> "Error", message |-> << "Failed: ", Signature, ", got null" >>],
      [name |-> "string", message |-> << Signature >>],
      [name |-> "Error", message |-> << "Network error" >>],
      [name |-> "string", message |-> << "Expect value to be" >>],
      [name |-> "object", message |-> << Signature >>] }

\* String.prototype.includes for a text kept in parts
Includes(parts, text) == \E i \in 1..Len(parts) : parts[i] = text

\* const message = typeof err === "string" ? err : err instanceof Error ? err.message : ""
MessageOf(err) == IF err.name \in {"string", "Error"} THEN err.message ELSE << >>

\* mutant: every error of the wrapped call is swallowed
RecoverableAlways(err) == TRUE
Recoverable(err) == Includes(MessageOf(err), Signature)

IgnoringWarning == [kind |-> "ignoring", label |-> "crypto sync", n |-> 0, got |-> "none"]

\* mutant: the two lists are handed on in the wrong order
ForwardedArgsSwapped(args, safeChanged, safeLeft) ==
    [toDeviceMessages |-> args.toDeviceMessages, otkCounts |-> args.otkCounts,
     unusedFallbackKeyAlgs |-> args.unusedFallbackKeyAlgs,
     changedDeviceLists |-> safeLeft, leftDeviceLists |-> safeChanged]

\* the arguments of originalUpdateSyncData
ForwardedArgs(args, safeChanged, safeLeft) ==
    [toDeviceMessages |-> args.toDeviceMessages, otkCounts |-> args.otkCounts,
     unusedFallbackKeyAlgs |-> args.unusedFallbackKeyAlgs,
     changedDeviceLists |-> safeChanged, leftDeviceLists |-> safeLeft]

----------------------------------------------------------------------------
(* Initial state *)

NoOptions == [config |-> [resolve |-> "disabled", cdpUrl |-> Undef],
              sandboxed |-> "undefined", timeoutMs |-> 0]
NoEnv == [NODE_ENV |-> Undef, VITEST |-> Undef, VITEST_WORKER_ID |-> Undef,
          JEST_WORKER_ID |-> Undef]
NoRsResult == [kind |-> "none", value |-> << >>]

Init ==
    /\ pc = "idle" /\ fn = "none" /\ options = NoOptions /\ env = NoEnv
    /\ now = 0 /\ start = 0 /\ profile = NullProfile /\ pwModule = NullModule
    /\ status = NoStatus /\ cdpUrl = << >> /\ statusCalls = 0 /\ startCalls = 0
    /\ pageOpen = FALSE /\ openCalls = 0 /\ closeCalls = 0 /\ closeFailed = FALSE
    /\ deadline = 0 /\ selIdx = 0 /\ timeout = 0 /\ probed = << >> /\ input = 0
    /\ baselineCount = 0 /\ filled = FALSE /\ canClick = FALSE
    /\ clicks = 0 /\ presses = 0 /\ sendFailed = FALSE
    /\ waitTimedOut = FALSE /\ count = 0
    /\ message = -1 /\ rsStart = 0 /\ last = << >> /\ stableTicks = 0
    /\ samples = << >> /\ rsResult = NoRsResult
    /\ outcome = NoOutcome /\ listArg = NonArrayV("undefined") /\ warnings = << >>
    /\ syncArgs = NoSyncArgs /\ forwarded = << >> /\ underlying = NoUnderlying

\* a new call starts from fresh locals
ResetEnsure ==
    /\ status' = NoStatus /\ statusCalls' = 0 /\ startCalls' = 0
ResetFind ==
    /\ deadline' = 0 /\ selIdx' = 0 /\ timeout' = 0 /\ probed' = << >>
ResetSend ==
    /\ canClick' = FALSE /\ clicks' = 0 /\ presses' = 0 /\ sendFailed' = FALSE
ResetReply ==
    /\ waitTimedOut' = FALSE /\ count' = 0
ResetStable ==
    /\ rsStart' = 0 /\ last' = << >> /\ stableTicks' = 0 /\ samples' = << >>
    /\ rsResult' = NoRsResult
ResetRun ==
    /\ now' = 0 /\ start' = 0 /\ pwModule' = NullModule
    /\ cdpUrl' = << >> /\ pageOpen' = FALSE /\ openCalls' = 0 /\ closeCalls' = 0
    /\ closeFailed' = FALSE /\ input' = 0 /\ baselineCount' = 0 /\ filled' = FALSE
    /\ message' = -1
    /\ ResetEnsure /\ ResetFind /\ ResetSend /\ ResetReply /\ ResetStable

ResetSync ==
    /\ syncArgs' = NoSyncArgs /\ forwarded' = << >> /\ underlying' = NoUnderlying

CanCall == pc = "idle"

----------------------------------------------------------------------------
(* canUseAtlas and sanitizeUserIdList, which run to completion *)

CallCanUseAtlas ==
    /\ CanCall
    /\ \E e \in Envs, sb \in SandboxedChoices, c \in Configs :
         LET opts == [config |-> c, sandboxed |-> sb, timeoutMs |-> 0] IN
         /\ fn' = "canUseAtlas" /\ options' = opts /\ env' = e
         /\ outcome' = canUseAtlas(opts, e)
    /\ pc' = "done"
    /\ ResetSync
    /\ ResetRun /\ profile' = NullProfile
    /\ listArg' = NonArrayV("undefined") /\ warnings' = << >>

SanitizerInputs == { NonArrayV(k) : k \in NonArrayKinds } \cup { ArrayV(a) : a \in Arrays }

CallSanitizeUserIdList ==
    /\ CanCall
    /\ \E in \in SanitizerInputs :
         LET r == sanitizeUserIdList(in, "changed device list") IN
         /\ listArg' = in
         /\ outcome' = Returned(r.list)
         /\ warnings' = r.warns
    /\ fn' = "sanitizeUserIdList" /\ options' = NoOptions /\ env' = NoEnv
    /\ pc' = "done"
    /\ ResetSync
    /\ ResetRun /\ profile' = NullProfile

----------------------------------------------------------------------------
(* Groups of variables *)

callV == << fn, options, env, listArg, warnings, syncArgs, forwarded, underlying >>
ensureV == << status, statusCalls, startCalls >>
findV == << deadline, selIdx, timeout, probed >>
sendV == << canClick, clicks, presses, sendFailed >>
replyV == << waitTimedOut, count >>
stableV == << rsStart, last, stableTicks, samples, rsResult >>
pageV == << pageOpen, openCalls, closeCalls, closeFailed >>
runV == << profile, pwModule, cdpUrl, start >>
stepV == << input, baselineCount, filled, message >>

----------------------------------------------------------------------------
(* The wrapped client.crypto.updateSyncData *)

\* the wrapper up to its await: both lists are sanitized and the underlying
\* update is called
CallUpdateSyncData ==
    /\ CanCall
    /\ \E head \in SyncHeads, changed \in SanitizerInputs, left \in SanitizerInputs :
         LET args == SyncCall(head, changed, left)
             safeChanged == sanitizeUserIdList(changed, "changed device list")
             safeLeft == sanitizeUserIdList(left, "left device list")
         IN
         /\ syncArgs' = args
         /\ warnings' = safeChanged.warns \o safeLeft.warns
         /\ forwarded' = << ForwardedArgs(args, safeChanged.list, safeLeft.list) >>
    /\ underlying' = NoUnderlying
    /\ fn' = "updateSyncData" /\ options' = NoOptions /\ env' = NoEnv
    /\ listArg' = NonArrayV("undefined")
    /\ outcome' = NoOutcome
    /\ pc' = "originalUpdateSyncData"
    /\ ResetRun /\ profile' = NullProfile

\* the underlying update settles: its value is returned, its error is swallowed
\* when recoverable and rethrown otherwise
OriginalUpdateSyncData ==
    /\ pc = "originalUpdateSyncData"
    /\ \/ /\ underlying' = [kind |-> "resolved", error |-> NoError]
          /\ outcome' = Returned("updated")
          /\ warnings' = warnings
       \/ \E err \in SyncErrors :
            /\ underlying' = [kind |-> "rejected", error |-> err]
            /\ IF Recoverable(err)
               THEN /\ warnings' = Append(warnings, IgnoringWarning)
                    /\ outcome' = Returned("undefined")
               ELSE /\ warnings' = warnings
                    /\ outcome' = Thrown(err)
    /\ pc' = "done"
    /\ UNCHANGED << fn, options, env, listArg, syncArgs, forwarded, now, runV, ensureV,
                    pageV, findV, sendV, replyV, stableV, stepV >>

----------------------------------------------------------------------------
(* runAtlasPrompt: one action per awaited call *)

\* the catch clause of runAtlasPrompt: what is rethrown for err
Catch(err) ==
    IF err.name = "AtlasUnavailableError" THEN err
    ELSE AtlasUnavailableError(<< "Atlas prompt failed: ", StringOf(err) >>)

\* the catch clause of ensureAtlasCdpUrl
CatchEnsure(err) ==
    IF err.name = "AtlasUnavailableError" THEN err
    ELSE AtlasUnavailableError(<< "Atlas browser is not reachable: ", StringOf(err) >>)

\* the finally clause is reached with a pending outcome o: the close is requested
\* when the module has a close operation, and skipped otherwise
RequestsClose(m) == m.hasClose
\* mutant: the close is requested on the failure paths only
FinallyOnFailureOnly(o) ==
    /\ outcome' = o
    /\ pc' = IF o.kind = "throw" /\ RequestsClose(pwModule) THEN "closePage" ELSE "done"
Finally(o) ==
    /\ outcome' = o
    /\ pc' = IF RequestsClose(pwModule) THEN "closePage" ELSE "done"

\* the outcome leaves runAtlasPrompt outside the try block
Leave(o) == outcome' = o /\ pc' = "done"

ModuleUsable(m) == ~m.isNull /\ m.hasCreate /\ m.hasGetPage

\* mutant: the live URL is taken when it is non-empty before trimming
ResolveCdpUrlUntrimmed(st, pr) ==
    IF st.cdpUrl.def /\ st.cdpUrl.s # << >> THEN st.cdpUrl.s ELSE OptTrim(pr.cdpUrl)
ResolveCdpUrl(st, pr) ==
    LET live == OptTrim(st.cdpUrl) IN
    IF live # << >> THEN live ELSE OptTrim(pr.cdpUrl)

\* mutant: the profile is resolved before the sandbox check
CallRunAtlasPromptResolvesFirst ==
    /\ CanCall
    /\ \E sb \in RunSandboxedChoices, t \in TimeoutChoices, c \in Configs :
         LET opts == [config |-> c, sandboxed |-> sb, timeoutMs |-> t]
             r == resolveAtlasProfile(c)
         IN
         /\ options' = opts
         /\ IF r.kind = "throw"
            THEN Leave(r) /\ profile' = NullProfile
            ELSE IF IsSandboxed(opts)
            THEN /\ Leave(Thrown(AtlasUnavailableError(
                          << "Atlas is not available in sandboxed sessions." >>)))
                 /\ profile' = NullProfile
            ELSE IF r.value.isNull
            THEN /\ Leave(Thrown(AtlasUnavailableError(
                          << "Atlas profile is not configured." >>)))
                 /\ profile' = NullProfile
            ELSE /\ profile' = r.value
                 /\ pc' = "getPwAiModule"
                 /\ outcome' = NoOutcome
    /\ fn' = "runAtlasPrompt" /\ env' = NoEnv
    /\ listArg' = NonArrayV("undefined") /\ warnings' = << >>
    /\ ResetSync
    /\ ResetRun

CallRunAtlasPrompt ==
    /\ CanCall
    /\ \E sb \in RunSandboxedChoices, t \in TimeoutChoices, c \in Configs :
         LET opts == [config |-> c, sandboxed |-> sb, timeoutMs |-> t]
             r == resolveAtlasProfile(c)
         IN
         /\ options' = opts
         /\ IF IsSandboxed(opts)
            THEN /\ Leave(Thrown(AtlasUnavailableError(
                          << "Atlas is not available in sandboxed sessions." >>)))
                 /\ profile' = NullProfile
            ELSE IF r.kind = "throw"
            THEN Leave(r) /\ profile' = NullProfile
            ELSE IF r.value.isNull
            THEN /\ Leave(Thrown(AtlasUnavailableError(
                          << "Atlas profile is not configured." >>)))
                 /\ profile' = NullProfile
            ELSE /\ profile' = r.value
                 /\ pc' = "getPwAiModule"
                 /\ outcome' = NoOutcome
    /\ fn' = "runAtlasPrompt" /\ env' = NoEnv
    /\ listArg' = NonArrayV("undefined") /\ warnings' = << >>
    /\ ResetSync
    /\ ResetRun

GetPwAiModule ==
    /\ pc = "getPwAiModule"
    /\ \E m \in ModuleChoices :
         /\ pwModule' = m
         /\ IF ModuleUsable(m)
            THEN pc' = "browserStatus" /\ outcome' = outcome
            ELSE Leave(Thrown(AtlasUnavailableError(
                     << "Playwright is not available for Atlas automation." >>)))
    /\ UNCHANGED << callV, now, start, profile, cdpUrl, ensureV, pageV, findV, sendV,
                    replyV, stableV, stepV >>

\* the tail of ensureAtlasCdpUrl once the final status st is known
EnsureReturn(st) ==
    LET url == ResolveCdpUrl(st, profile) IN
    IF url = << >>
    THEN /\ Leave(Thrown(CatchEnsure(AtlasUnavailableError(
                  << "Atlas profile has no CDP URL." >>))))
         /\ UNCHANGED << cdpUrl, start >>
    ELSE /\ cdpUrl' = url
         /\ start' = now
         /\ pc' = "createPage"
         /\ outcome' = outcome

BrowserStatus ==
    /\ pc = "browserStatus"
    /\ statusCalls' = statusCalls + 1
    /\ \/ \E f \in Faults :
            /\ Leave(Thrown(CatchEnsure(RawFault(f))))
            /\ UNCHANGED << status, cdpUrl, start >>
       \/ \E st \in StatusChoices :
            /\ status' = st
            /\ IF ~st.running
               THEN pc' = "browserStart" /\ UNCHANGED << outcome, cdpUrl, start >>
               ELSE EnsureReturn(st)
    /\ UNCHANGED << callV, now, profile, pwModule, startCalls, pageV, findV, sendV,
                    replyV, stableV, stepV >>

BrowserStart ==
    /\ pc = "browserStart"
    /\ startCalls' = startCalls + 1
    /\ \/ \E f \in Faults : Leave(Thrown(CatchEnsure(RawFault(f))))
       \/ pc' = "browserStatusAgain" /\ outcome' = outcome
    /\ UNCHANGED << callV, now, runV, status, statusCalls, pageV, findV, sendV,
                    replyV, stableV, stepV >>

BrowserStatusAgain ==
    /\ pc = "browserStatusAgain"
    /\ statusCalls' = statusCalls + 1
    /\ \/ \E f \in Faults :
            /\ Leave(Thrown(CatchEnsure(RawFault(f))))
            /\ UNCHANGED << status, cdpUrl, start >>
       \/ \E st \in StatusChoices :
            /\ status' = st
            /\ EnsureReturn(st)
    /\ UNCHANGED << callV, now, profile, pwModule, startCalls, pageV, findV, sendV,
                    replyV, stableV, stepV >>

CreatePage ==
    /\ pc = "createPage"
    /\ \/ \E f \in Faults :
            /\ Leave(Thrown(RawFault(f)))
            /\ UNCHANGED << pageOpen, openCalls >>
       \/ /\ pageOpen' = TRUE
          /\ openCalls' = openCalls + 1
          /\ pc' = "getPage"
          /\ outcome' = outcome
    /\ UNCHANGED << callV, now, runV, ensureV, closeCalls, closeFailed, findV, sendV,
                    replyV, stableV, stepV >>

GetPage ==
    /\ pc = "getPage"
    /\ \/ \E f \in Faults : Finally(Thrown(Catch(RawFault(f))))
       \/ pc' = "waitForLoadState" /\ outcome' = outcome
    /\ ResetEnsure
    /\ UNCHANGED << callV, now, runV, pageV, findV, sendV, replyV, stableV, stepV >>

----------------------------------------------------------------------------
(* findPromptInput *)

\* mutant: the per-selector wait has no floor, so a passed deadline ends the loop
ProbeTimeoutNoFloor(d, t) == Min(MaxProbeMs, d - t)
ProbeTimeout(d, t) == Min(MaxProbeMs, Max(MinProbeMs, d - t))

NotFoundError ==
    AtlasUnavailableError(
        << "ChatGPT input not found. Open Atlas, sign in to ChatGPT, then try again." >>)

\* the for loop from selector i on, at time t, against deadline d
FindLoop(i, t, d) ==
    IF i <= Len(selectors) /\ ProbeTimeout(d, t) > 0
    THEN /\ selIdx' = i
         /\ timeout' = ProbeTimeout(d, t)
         /\ probed' = Append(probed, i)
         /\ pc' = "waitFor"
         /\ outcome' = outcome
    ELSE /\ UNCHANGED << selIdx, timeout, probed >>
         /\ Finally(Thrown(Catch(NotFoundError)))

WaitForLoadState ==
    /\ pc = "waitForLoadState"
    /\ \E r \in {"resolved", "rejected"} :
         /\ now' = now + (IF r = "rejected" THEN LoadStateTimeoutMs ELSE 0)
         /\ deadline' = now' + Max(MinDeadlineMs, options.timeoutMs)
         /\ FindLoop(1, now', deadline')
    /\ UNCHANGED << callV, runV, ensureV, pageV, sendV, replyV, stableV, stepV >>

WaitFor ==
    /\ pc = "waitFor"
    /\ \E r \in {"visible", "rejected"} :
         IF r = "visible"
         THEN /\ pc' = "isEnabled"
              /\ UNCHANGED << now, selIdx, timeout, probed, outcome >>
         ELSE /\ now' = now + timeout
              /\ FindLoop(selIdx + 1, now', deadline)
    /\ UNCHANGED << callV, runV, ensureV, pageV, deadline, sendV, replyV, stableV,
                    stepV >>

IsEnabled ==
    /\ pc = "isEnabled"
    /\ \E r \in {"true", "false", "rejected"} :
         IF r = "true"
         THEN /\ input' = selIdx
              /\ pc' = "baselineCount"
              /\ UNCHANGED << selIdx, timeout, probed, outcome >>
         ELSE /\ FindLoop(selIdx + 1, now, deadline)
              /\ input' = input
    /\ UNCHANGED << callV, now, runV, ensureV, pageV, deadline, sendV, replyV, stableV,
                    baselineCount, filled, message >>

----------------------------------------------------------------------------
(* Baseline, fill and clickSend *)

BaselineCount ==
    /\ pc = "baselineCount"
    /\ \/ \E f \in Faults :
            /\ Finally(Thrown(Catch(RawFault(f))))
            /\ baselineCount' = baselineCount
       \/ \E n \in 0..MaxMessages :
            /\ baselineCount' = n
            /\ pc' = "fill"
            /\ outcome' = outcome
    /\ ResetFind
    /\ UNCHANGED << callV, now, runV, ensureV, pageV, sendV, replyV, stableV, input,
                    filled, message >>

\* the timeout option passed to input.fill; Playwright takes 0 as "no timeout"
FillTimeout(t) == Min(t, MaxFillMs)

Fill ==
    /\ pc = "fill"
    /\ \/ \E f \in Faults :
            /\ Finally(Thrown(Catch(RawFault(f))))
            /\ filled' = filled
            /\ now' = now
       \/ \E f \in Faults :
            /\ FillTimeout(options.timeoutMs) > 0
            /\ now' = now + FillTimeout(options.timeoutMs)
            /\ Finally(Thrown(Catch(RawFault(f))))
            /\ filled' = filled
       \/ /\ filled' = TRUE
          /\ pc' = "isVisible"
          /\ outcome' = outcome
          /\ now' = now
    /\ UNCHANGED << callV, runV, ensureV, pageV, findV, sendV, replyV, stableV,
                    input, baselineCount, message >>

SendIsVisible ==
    /\ pc = "isVisible"
    /\ \E r \in {"true", "false", "rejected"} :
         /\ canClick' = (r = "true")
         /\ pc' = IF canClick' THEN "sendEnabled" ELSE "press"
    /\ UNCHANGED << callV, now, runV, ensureV, pageV, findV, clicks, presses, sendFailed,
                    replyV,
                    stableV, stepV, outcome >>

SendIsEnabled ==
    /\ pc = "sendEnabled"
    /\ \E r \in {"true", "false", "rejected"} :
         pc' = IF r = "true" THEN "click" ELSE "press"
    /\ UNCHANGED << callV, now, runV, ensureV, pageV, findV, sendV, replyV, stableV,
                    stepV, outcome >>

\* mutant: a rejected click falls back to the Enter keypress
ClickThenEnter ==
    /\ pc = "click"
    /\ clicks' = clicks + 1
    /\ \E r \in {"resolved", "rejected"} :
         /\ sendFailed' = (r = "rejected")
         /\ pc' = IF r = "rejected" THEN "press" ELSE "waitForFunction"
    /\ UNCHANGED << callV, now, runV, ensureV, pageV, findV, canClick, presses, replyV,
                    stableV, stepV, outcome >>
\* mutant: a rejected click is not caught and fails the prompt
ClickUncaught ==
    /\ pc = "click"
    /\ clicks' = clicks + 1
    /\ \E r \in {"resolved", "rejected"} :
         /\ sendFailed' = (r = "rejected")
         /\ IF r = "rejected"
            THEN \E f \in Faults : Finally(Thrown(Catch(RawFault(f))))
            ELSE pc' = "waitForFunction" /\ outcome' = outcome
    /\ UNCHANGED << callV, now, runV, ensureV, pageV, findV, canClick, presses, replyV,
                    stableV, stepV >>
Click ==
    /\ pc = "click"
    /\ clicks' = clicks + 1
    /\ \E r \in {"resolved", "rejected"} : sendFailed' = (r = "rejected")
    /\ pc' = "waitForFunction"
    /\ UNCHANGED << callV, now, runV, ensureV, pageV, findV, canClick, presses, replyV,
                    stableV, stepV, outcome >>

PressEnter ==
    /\ pc = "press"
    /\ presses' = presses + 1
    /\ \E r \in {"resolved", "rejected"} : sendFailed' = (r = "rejected")
    /\ pc' = "waitForFunction"
    /\ UNCHANGED << callV, now, runV, ensureV, pageV, findV, canClick, clicks, replyV,
                    stableV, stepV, outcome >>

----------------------------------------------------------------------------
(* waitForAssistantMessage and readStableText *)

NextTicks(ticks, text, lst) ==
    IF text # << >> /\ text = lst THEN ticks + 1 ELSE 0

\* mutant: stability is declared one sample early
IsStableOneEarly(ticks, text) == ticks >= StableTicksNeeded - 1 /\ text # << >>
IsStable(ticks, text) == ticks >= StableTicksNeeded /\ text # << >>

KeepPolling(t, s0, budget) == t - s0 < budget

\* mutant: the element after the last one is selected
LastIndexPastEnd(n) == n
LastIndex(n) == n - 1

\* mutant: the empty text is returned instead of raised
FinishWithoutEmptyCheck(text, t) ==
    Finally(Returned([text |-> text, tookMs |-> t - start]))

\* the rest of runAtlasPrompt's try block once readStableText returned text at time t
Finish(text, t) ==
    IF text = << >>
    THEN Finally(Thrown(Catch(AtlasUnavailableError(
             << "ChatGPT returned an empty response." >>))))
    ELSE Finally(Returned([text |-> text, tookMs |-> t - start]))

\* mutant: on timeout only a stable text is returned, anything else is dropped
StableLoopDropsLast(t, s0, lst) ==
    IF KeepPolling(t, s0, options.timeoutMs)
    THEN /\ pc' = "innerText"
         /\ rsResult' = rsResult
         /\ outcome' = outcome
    ELSE /\ rsResult' = [kind |-> "timeout", value |-> << >>]
         /\ Finish(<< >>, t)

\* the head of the while loop at time t, with start s0 and last sample lst
StableLoop(t, s0, lst) ==
    IF KeepPolling(t, s0, options.timeoutMs)
    THEN /\ pc' = "innerText"
         /\ rsResult' = rsResult
         /\ outcome' = outcome
    ELSE /\ rsResult' = [kind |-> "timeout", value |-> lst]
         /\ Finish(lst, t)

WaitForFunction ==
    /\ pc = "waitForFunction"
    /\ \E r \in {"resolved", "rejected"} :
         /\ waitTimedOut' = (r = "rejected")
         /\ now' = now + (IF r = "rejected"
                          THEN Max(MinReplyWaitMs, options.timeoutMs) ELSE 0)
    /\ pc' = "count"
    /\ count' = count
    /\ ResetSend
    /\ UNCHANGED << callV, runV, ensureV, pageV, findV, stableV, stepV, outcome >>

Count ==
    /\ pc = "count"
    /\ \/ \E f \in Faults :
            /\ Finally(Thrown(Catch(RawFault(f))))
            /\ UNCHANGED << count, message, stableV >>
       \/ \E n \in 0..MaxMessages :
            /\ count' = n
            /\ IF n = 0
               THEN /\ Finally(Thrown(Catch(AtlasUnavailableError(
                             << "No ChatGPT response detected." >>))))
                    /\ UNCHANGED << message, stableV >>
               ELSE /\ message' = LastIndex(n)
                    /\ rsStart' = now
                    /\ UNCHANGED << last, stableTicks, samples >>
                    /\ StableLoop(now, now, << >>)
    /\ UNCHANGED << callV, now, runV, ensureV, pageV, findV, sendV, waitTimedOut,
                    input, baselineCount, filled >>

InnerText ==
    /\ pc = "innerText"
    /\ \E raw \in RawTexts :
         LET text == Trim(raw)
             ticks == NextTicks(stableTicks, text, last)
         IN
         /\ stableTicks' = ticks
         /\ last' = text
         /\ samples' = Append(samples, text)
         /\ IF IsStable(ticks, text)
            THEN /\ rsResult' = [kind |-> "stable", value |-> text]
                 /\ Finish(text, now)
            ELSE /\ pc' = "waitForTimeout"
                 /\ UNCHANGED << rsResult, outcome >>
    /\ ResetReply
    /\ UNCHANGED << callV, now, runV, ensureV, pageV, findV, sendV, rsStart, stepV >>

WaitForTimeout ==
    /\ pc = "waitForTimeout"
    /\ \/ \E f \in Faults :
            /\ rsResult' = [kind |-> "throw", value |-> << >>]
            /\ Finally(Thrown(Catch(RawFault(f))))
            /\ now' = now
       \/ /\ now' = now + PollMs
          /\ StableLoop(now', rsStart, last)
    /\ UNCHANGED << callV, runV, ensureV, pageV, findV, sendV, replyV, rsStart, last,
                    stableTicks, samples, stepV >>

----------------------------------------------------------------------------
(* The finally clause *)

ClosePage ==
    /\ pc = "closePage"
    /\ closeCalls' = closeCalls + 1
    /\ \E r \in {"resolved", "rejected"} :
         /\ closeFailed' = (r = "rejected")
         /\ pageOpen' = (r = "rejected")
    /\ pc' = "done"
    /\ UNCHANGED << callV, now, runV, ensureV, openCalls, findV, sendV, replyV, stableV,
                    stepV, outcome >>

----------------------------------------------------------------------------
(* Specification *)

Next ==
    \/ CallCanUseAtlas
    \/ CallSanitizeUserIdList
    \/ CallUpdateSyncData
    \/ OriginalUpdateSyncData
    \/ CallRunAtlasPrompt
    \/ GetPwAiModule
    \/ BrowserStatus
    \/ BrowserStart
    \/ BrowserStatusAgain
    \/ CreatePage
    \/ GetPage
    \/ WaitForLoadState
    \/ WaitFor
    \/ IsEnabled
    \/ BaselineCount
    \/ Fill
    \/ SendIsVisible
    \/ SendIsEnabled
    \/ Click
    \/ PressEnter
    \/ WaitForFunction
    \/ Count
    \/ InnerText
    \/ WaitForTimeout
    \/ ClosePage

Spec == Init /\ [][Next]_vars

----------------------------------------------------------------------------
(* readStableText on its own: the call is about to re-count the messages, and  *)
(* the budget is drawn from budgets that leave room for up to six samples      *)

StableTimeoutChoices == {0, 900, 2400}

InitStable ==
    /\ pc = "count" /\ fn = "runAtlasPrompt" /\ env = NoEnv
    /\ \E t \in StableTimeoutChoices :
         options = [config |-> [resolve |-> "ok", cdpUrl |-> Undef],
                    sandboxed |-> "undefined", timeoutMs |-> t]
    /\ now = 0 /\ start = 0 /\ profile = Profile(Undef)
    /\ pwModule = Module(TRUE, TRUE, TRUE)
    /\ status = NoStatus /\ cdpUrl = << "u" >> /\ statusCalls = 0 /\ startCalls = 0
    /\ pageOpen = TRUE /\ openCalls = 1 /\ closeCalls = 0 /\ closeFailed = FALSE
    /\ deadline = 0 /\ selIdx = 0 /\ timeout = 0 /\ probed = << >> /\ input = 1
    /\ baselineCount = 0 /\ filled = TRUE /\ canClick = FALSE
    /\ clicks = 0 /\ presses = 0 /\ sendFailed = FALSE
    /\ waitTimedOut \in BOOLEAN /\ count = 0
    /\ message = -1 /\ rsStart = 0 /\ last = << >> /\ stableTicks = 0
    /\ samples = << >> /\ rsResult = NoRsResult
    /\ outcome = NoOutcome /\ listArg = NonArrayV("undefined") /\ warnings = << >>
    /\ syncArgs = NoSyncArgs /\ forwarded = << >> /\ underlying = NoUnderlying

NextStable ==
    \/ Count
    \/ InnerText
    \/ WaitForTimeout
    \/ ClosePage

SpecStable == InitStable /\ [][NextStable]_vars

----------------------------------------------------------------------------
(* Properties *)

RunDone == fn = "runAtlasPrompt" /\ pc = "done"

\* C1 (as stated): whenever runAtlasPrompt has opened a page, that page has been
\* closed exactly once and is no longer open when the call has finished.
C1_ClosedExactlyOnce ==
    (RunDone /\ openCalls = 1) => (closeCalls = 1 /\ ~pageOpen)

\* C1 (amended): whenever runAtlasPrompt has opened a page, the close of that page
\* has been requested at most once when the call has finished, and exactly once
\* when the loaded module has a close operation, whichever stage failed or if all
\* succeeded; the page is no longer open when that request succeeded, and is
\* still open only when the module has no close operation or the close was
\* rejected.  No close is ever requested before the try block is left.
C1_CloseRequestedOnce ==
    /\ closeCalls <= openCalls
    /\ (fn = "runAtlasPrompt" /\ pc \notin {"done"}) => closeCalls = 0
    /\ (RunDone /\ openCalls = 1) =>
          /\ closeCalls = (IF pwModule.hasClose THEN 1 ELSE 0)
          /\ (closeCalls = 1 /\ ~closeFailed) => ~pageOpen
          /\ pageOpen => (~pwModule.hasClose \/ closeFailed)

\* C1 witness: a call that returned a result after opening a page, whose close was
\* requested once and succeeded.
C1_Witness ==
    /\ RunDone /\ openCalls = 1 /\ closeCalls = 1 /\ ~pageOpen
    /\ outcome.kind = "return"

\* C2: every error that leaves runAtlasPrompt is an AtlasUnavailableError.
C2_OnlyUnavailable ==
    (RunDone /\ outcome.kind = "throw") => outcome.error.name = "AtlasUnavailableError"

\* C3: when the status read after the start request still reports not running,
\* no page is opened and the call ends by raising.
C3_NoPageWhenNotRunning ==
    (fn = "runAtlasPrompt" /\ startCalls = 1 /\ statusCalls = 2 /\ ~status.running) =>
        /\ openCalls = 0
        /\ pc = "done" => outcome.kind = "throw"

\* C4: when readStableText has returned a non-empty text T, runAtlasPrompt
\* returns {text: T, tookMs >= 0}; a returned result never has an empty text, and
\* an empty text from readStableText makes the call raise AtlasUnavailableError.
C4_ReturnsStableText ==
    /\ (fn = "runAtlasPrompt" /\ rsResult.kind \in {"stable", "timeout"}) =>
          IF rsResult.value # << >>
          THEN /\ outcome.kind = "return"
               /\ outcome.value.text = rsResult.value
               /\ outcome.value.tookMs >= 0
          ELSE /\ IsUnavailable(outcome)
               /\ outcome.error.message = << "ChatGPT returned an empty response." >>
    /\ (fn = "runAtlasPrompt" /\ outcome.kind = "return") =>
          /\ outcome.value.text # << >>
          /\ rsResult.kind \in {"stable", "timeout"}
          /\ outcome.value.text = rsResult.value

\* C4 witness: the text stabilised to "a" over four samples and was returned.
C4_Witness ==
    /\ RunDone /\ rsResult = [kind |-> "stable", value |-> << "a" >>]
    /\ samples = << << "a" >>, << "a" >>, << "a" >>, << "a" >> >>
    /\ outcome.kind = "return" /\ outcome.value.text = << "a" >>

\* sample k is the 4th of four consecutive equal non-empty samples
FourEqualAt(k) ==
    /\ k >= 4
    /\ samples[k] # << >>
    /\ \A j \in 1..3 : samples[k - j] = samples[k]

\* the stability counter as the samples define it
RECURSIVE TicksOf(_)
TicksOf(s) ==
    IF Len(s) <= 1 THEN 0
    ELSE IF s[Len(s)] # << >> /\ s[Len(s)] = s[Len(s) - 1]
         THEN TicksOf(SubSeq(s, 1, Len(s) - 1)) + 1
         ELSE 0

\* C5: readStableText returns before its timeout exactly at the first sample that
\* is the 4th of four consecutive equal non-empty samples, with that text; the
\* counter is the number of immediately preceding samples equal to the non-empty
\* current one, and the return happens exactly when it reaches 3.
C5_ReturnsAtFourthEqualSample ==
    /\ rsResult.kind = "stable" =>
          /\ FourEqualAt(Len(samples))
          /\ rsResult.value = samples[Len(samples)]
          /\ stableTicks = StableTicksNeeded
          /\ \A k \in 1..(Len(samples) - 1) : ~FourEqualAt(k)
    /\ rsResult.kind # "stable" =>
          /\ \A k \in 1..Len(samples) : ~FourEqualAt(k)
          /\ stableTicks < StableTicksNeeded
    /\ stableTicks = TicksOf(samples)

\* C5 witness: the samples a,a,b,b,b,b were read and b was returned at the 6th.
C5_Witness ==
    /\ samples = << << "a" >>, << "a" >>, << "b" >>, << "b" >>, << "b" >>, << "b" >> >>
    /\ rsResult = [kind |-> "stable", value |-> << "b" >>]

LastSample == IF samples = << >> THEN << >> ELSE samples[Len(samples)]

\* C6: when readStableText returns because its timeout elapsed, it returns the
\* last sample it took (the empty string when no sample was taken), and four
\* consecutive equal non-empty samples were never seen.
C6_TimeoutReturnsLastSample ==
    rsResult.kind = "timeout" =>
        /\ rsResult.value = LastSample
        /\ now - rsStart >= options.timeoutMs
        /\ \A k \in 1..Len(samples) : ~FourEqualAt(k)

\* C6 witness: the timeout elapsed after the samples a, b, a; a was returned.
C6_Witness ==
    /\ rsResult = [kind |-> "timeout", value |-> << "a" >>]
    /\ samples = << << "a" >>, << "b" >>, << "a" >> >>

\* C7: readStableText never raises.
C7_NeverRaises == rsResult.kind # "throw"

\* C8: canUseAtlas never raises; it returns true exactly when no test-environment
\* marker is set, the caller is not sandboxed and the profile resolves without
\* error with automation enabled.
C8_GateIff ==
    (fn = "canUseAtlas" /\ pc = "done") =>
        /\ outcome.kind = "return"
        /\ outcome.value =
             ( /\ env.NODE_ENV # Str(<< "test" >>)
               /\ \A v \in {env.VITEST, env.VITEST_WORKER_ID, env.JEST_WORKER_ID} :
                     v \in {Undef, Str(<< >>)}
               /\ options.sandboxed # "true"
               /\ options.config.resolve = "ok" )

\* C8 witness: profile resolution threw outside a test environment and the gate
\* answered false.
C8_Witness ==
    /\ fn = "canUseAtlas" /\ pc = "done"
    /\ env = NoEnv /\ options.sandboxed = "false" /\ options.config.resolve = "throws"
    /\ outcome = Returned(FALSE)

\* C9: findPromptInput probes the selectors in their listed order, one after the
\* other; it returns the locator of the selector it has just found visible and
\* enabled without probing a later one, and raises the not-found error only when
\* all four selectors have been probed.
C9_ProbesInOrder ==
    /\ \A i \in 1..Len(probed) : probed[i] = i
    /\ pc \in {"waitFor", "isEnabled"} => (selIdx = Len(probed) /\ input = 0)
    /\ pc = "baselineCount" => (input = selIdx /\ Len(probed) = input /\ input >= 1)
    /\ (fn = "runAtlasPrompt" /\ pc \in {"closePage", "done"}
            /\ outcome.kind = "throw" /\ outcome.error = NotFoundError) =>
          (probed = << 1, 2, 3, 4 >> /\ input = 0)

\* C9 witness: the third selector was returned after the first two failed.
C9_Witness == pc = "baselineCount" /\ input = 3 /\ probed = << 1, 2, 3 >>

SanitizeDone == fn = "sanitizeUserIdList" /\ pc = "done"

\* C10 (as stated): for every input that is not an array, null and undefined
\* included, the output is empty and a warning is recorded.
C10_NonArrayWarns ==
    (SanitizeDone /\ listArg.t # "array") =>
        (outcome.value = << >> /\ Len(warnings) >= 1)

\* C10 (amended): for every input that is not an array the output is the empty
\* list; exactly one warning, naming the input's type, is recorded when the
\* input is neither null nor undefined, and no warning is recorded when it is
\* null or undefined.
C10_NonArrayEmpty ==
    (SanitizeDone /\ listArg.t # "array") =>
        /\ outcome = Returned(<< >>)
        /\ IF listArg.t \in {"null", "undefined"}
           THEN warnings = << >>
           ELSE /\ Len(warnings) = 1
                /\ warnings[1].kind = "notArray"
                /\ warnings[1].got = listArg.t

\* C10 witness: a string was passed; the output is empty and one warning recorded.
C10_Witness ==
    /\ SanitizeDone /\ listArg.t = "string"
    /\ outcome = Returned(<< >>) /\ Len(warnings) = 1


\* an entry that is not a string, or is blank after trimming
InvalidEntry(entry) ==
    entry.t # "string" \/ \A i \in 1..Len(entry.s) : entry.s[i] = " "
InvalidCount(items) == Cardinality({ i \in 1..Len(items) : InvalidEntry(items[i]) })

\* C11: for an array of M entries of which N are not strings or are blank after
\* trimming, sanitizeUserIdList returns a list of length M - N and records
\* exactly one warning, stating N, when N > 0, and no warning when N = 0.
C11_DropsInvalidEntries ==
    (SanitizeDone /\ listArg.t = "array") =>
        LET n == InvalidCount(listArg.items) IN
        /\ outcome.kind = "return"
        /\ Len(outcome.value) = Len(listArg.items) - n
        /\ IF n > 0
           THEN /\ Len(warnings) = 1
                /\ warnings[1].kind = "dropping"
                /\ warnings[1].n = n
           ELSE warnings = << >>

\* C11 witness: of two entries one was blank; one was kept and one warning
\* states 1.
C11_Witness ==
    /\ SanitizeDone /\ listArg.t = "array" /\ Len(listArg.items) = 2
    /\ InvalidCount(listArg.items) = 1
    /\ Len(outcome.value) = 1 /\ Len(warnings) = 1 /\ warnings[1].n = 1


SyncCalled == fn = "updateSyncData" /\ pc \in {"originalUpdateSyncData", "done"}

IsValidId(entry) == ~InvalidEntry(entry)
\* the valid entries of a device list in their original order
KeptOf(v) == IF v.t = "array" THEN SelectSeq(v.items, IsValidId) ELSE << >>

\* C12: on every invocation of the wrapped updateSyncData, whatever the changed
\* and left lists are, the underlying update is called exactly once, with the
\* first three arguments unchanged and with changed and left lists that hold
\* the valid entries of the inputs in their original order, every element being
\* a non-empty string.
C12_ForwardsCleanLists ==
    SyncCalled =>
        /\ Len(forwarded) = 1
        /\ forwarded[1].toDeviceMessages = syncArgs.toDeviceMessages
        /\ forwarded[1].otkCounts = syncArgs.otkCounts
        /\ forwarded[1].unusedFallbackKeyAlgs = syncArgs.unusedFallbackKeyAlgs
        /\ forwarded[1].changedDeviceLists = KeptOf(syncArgs.changedDeviceLists)
        /\ forwarded[1].leftDeviceLists = KeptOf(syncArgs.leftDeviceLists)
        /\ \A l \in {forwarded[1].changedDeviceLists, forwarded[1].leftDeviceLists} :
              \A i \in 1..Len(l) : l[i].t = "string" /\ l[i].s # << >>

\* C12 witness: a changed list of a number and "a" with an absent left list was
\* handed on as the list of "a" and the empty list.
C12_Witness ==
    /\ SyncCalled /\ pc = "done"
    /\ syncArgs.changedDeviceLists = ArrayV(<< OtherV("number"), StrV(<< "a" >>) >>)
    /\ syncArgs.leftDeviceLists = NonArrayV("undefined")
    /\ forwarded = << ForwardedArgs(syncArgs, << StrV(<< "a" >>) >>, << >>) >>

\* the text of a thrown value: the string itself or the Error's message
HasSignature(err) ==
    /\ err.name \in {"string", "Error"}
    /\ \E i \in 1..Len(err.message) : err.message[i] = "Expect value to be String"

\* C13: when the underlying update raises an error whose text contains "Expect
\* value to be String", the wrapper logs a warning and completes normally; when
\* it raises anything else, the wrapper raises that same error and logs nothing
\* more; when it resolves, its value is returned.
C13_SwallowsKnownError ==
    (fn = "updateSyncData" /\ pc = "done") =>
        LET sanitizing == sanitizeUserIdList(syncArgs.changedDeviceLists, "changed device list").warns
                          \o sanitizeUserIdList(syncArgs.leftDeviceLists, "left device list").warns
        IN
        CASE underlying.kind = "rejected" /\ HasSignature(underlying.error) ->
                /\ outcome = Returned("undefined")
                /\ warnings = Append(sanitizing, IgnoringWarning)
          [] underlying.kind = "rejected" ->
                /\ outcome = Thrown(underlying.error)
                /\ warnings = sanitizing
          [] OTHER ->
                /\ underlying.kind = "resolved"
                /\ outcome = Returned("updated")
                /\ warnings = sanitizing

\* C13 witness: the underlying update raised an Error with the known text and
\* the wrapper completed normally after one warning.
C13_Witness ==
    /\ fn = "updateSyncData" /\ pc = "done"
    /\ underlying.kind = "rejected" /\ underlying.error.name = "Error"
    /\ HasSignature(underlying.error)
    /\ outcome.kind = "return"
    /\ warnings = << IgnoringWarning >>


\* the trimmed URL of an optional string, empty when absent
TrimmedUrl(u) == IF u.def THEN Trim(u.s) ELSE << >>
\* the URL the call has to return for the latest status st
UrlFor(st) ==
    IF TrimmedUrl(st.cdpUrl) # << >> THEN TrimmedUrl(st.cdpUrl) ELSE TrimmedUrl(profile.cdpUrl)

C14_CallCounts ==
    fn = "runAtlasPrompt" =>
        /\ startCalls <= 1
        /\ statusCalls <= startCalls + 1
        /\ startCalls = 1 => statusCalls >= 1
        /\ pc = "browserStart" => statusCalls = 1 /\ startCalls = 0 /\ ~status.running
        /\ pc = "browserStatusAgain" => statusCalls = 1 /\ startCalls = 1 /\ ~status.running
        /\ pc = "createPage" =>
              /\ statusCalls = startCalls + 1
              /\ startCalls = 0 => status.running
              /\ cdpUrl # << >>
              /\ cdpUrl = UrlFor(status)

C14_StatusStep ==
    pc \in {"browserStatus", "browserStatusAgain"} =>
        /\ statusCalls' = statusCalls + 1 /\ startCalls' = startCalls
        /\ pc' = "browserStart" => pc = "browserStatus" /\ ~status'.running
        /\ pc' = "createPage" => cdpUrl' = UrlFor(status') /\ cdpUrl' # << >>
        /\ (UrlFor(status') = << >> /\ (pc = "browserStatusAgain" \/ status'.running)) =>
              /\ pc' = "done"
              /\ IsUnavailable(outcome')

\* C14: ensureAtlasCdpUrl queries status first, requests a start only when that
\* status reports not running and at most once, then queries status once more;
\* it returns the trimmed URL of the latest status when non-empty, otherwise the
\* trimmed last-known URL of the profile, fails with Unavailable when both are
\* empty after trimming, and never returns an empty URL.
C14_EnsureOrderAndUrl == []C14_CallCounts /\ [][C14_StatusStep]_vars

\* C14 witness: the browser was not running, one start and a second status query
\* followed, the second status had a blank URL and the profile's trimmed URL was
\* returned.
C14_Witness ==
    /\ pc = "createPage" /\ startCalls = 1 /\ statusCalls = 2
    /\ status.cdpUrl = Str(<< " " >>)
    /\ profile.cdpUrl = Str(<< "p", " " >>)
    /\ cdpUrl = << "p" >>


NoReplyError == AtlasUnavailableError(<< "No ChatGPT response detected." >>)

\* what each step whose failure is swallowed leaves behind, whether it failed or
\* not: the next step is the same and no outcome is produced or replaced
C15_SwallowingStep ==
    /\ pc = "waitForLoadState" =>
          /\ now' - now \in {0, LoadStateTimeoutMs}
          /\ pc' = "waitFor" /\ selIdx' = 1 /\ outcome' = outcome
          /\ deadline' - now' = Max(MinDeadlineMs, options.timeoutMs)
          /\ UNCHANGED << runV, pageV, stepV >>
    /\ pc \in {"click", "press"} =>
          /\ sendFailed' \in BOOLEAN
          /\ pc' = "waitForFunction" /\ outcome' = outcome
          /\ UNCHANGED << now, runV, pageV, findV, replyV, stableV, stepV >>
    /\ pc = "waitForFunction" =>
          /\ waitTimedOut' \in BOOLEAN
          /\ pc' = "count" /\ outcome' = outcome
          /\ UNCHANGED << runV, pageV, findV, stableV, stepV >>
    /\ (pc = "count" /\ fn = "runAtlasPrompt" /\ count' >= 1) =>
          /\ message' = count' - 1
          /\ outcome' # Thrown(NoReplyError)
          /\ pc' \in {"innerText", "closePage", "done"}
          /\ pc' # "innerText" => ~KeepPolling(now, now, options.timeoutMs)
    /\ pc = "closePage" =>
          /\ closeFailed' \in BOOLEAN
          /\ pc' = "done" /\ outcome' = outcome
          /\ UNCHANGED << now, runV, stepV >>

\* C15: a document-ready timeout, a failed send click or Enter keypress, a
\* failed page close, and a reply-count wait that times out while at least one
\* assistant message exists never abort runAtlasPrompt and never change its
\* outcome: the flow goes on to the next step as if the step had succeeded.
C15_SwallowedFailuresKeepOutcome == [][C15_SwallowingStep]_vars

\* C15 witness: the document-ready wait timed out and the page close failed, and
\* the prompt still returned its reply.
C15_Witness ==
    /\ RunDone /\ outcome.kind = "return"
    /\ closeFailed
    /\ outcome.value.tookMs >= LoadStateTimeoutMs


\* the re-count of waitForAssistantMessage and what follows from it
C16_RecountStep ==
    (pc = "count" /\ fn = "runAtlasPrompt") =>
        /\ waitTimedOut \in BOOLEAN /\ baselineCount \in 0..MaxMessages
        /\ count' >= 1 =>
              /\ message' = count' - 1
              /\ outcome' # Thrown(NoReplyError)
        /\ outcome' = Thrown(NoReplyError) => count' = 0
        /\ count' = 0 =>
              /\ IsUnavailable(outcome')
              /\ message' = message
              /\ pc' \in {"closePage", "done"}

C17_StopsAtDeadline ==
    (fn = "runAtlasPrompt" /\ pc = "waitFor") =>
        /\ timeout = Min(MaxProbeMs, Max(MinProbeMs, deadline - now))
        /\ now <= deadline


InClickSend == pc \in {"isVisible", "sendEnabled", "click", "press"}

C18_PathCounts ==
    fn = "runAtlasPrompt" =>
        /\ clicks + presses <= 1
        /\ InClickSend => clicks + presses = 0 /\ outcome = NoOutcome
        /\ pc \in {"sendEnabled", "click"} => canClick
        /\ pc = "waitForFunction" =>
              /\ clicks + presses = 1
              /\ clicks = 1 => canClick
              /\ outcome = NoOutcome

C18_SendStep ==
    InClickSend =>
        /\ outcome' = outcome
        /\ pc' \in {"sendEnabled", "click", "press", "waitForFunction"}
        /\ pc' = "sendEnabled" => pc = "isVisible" /\ canClick'
        /\ pc' = "click" => pc = "sendEnabled"
        /\ pc' = "press" => pc \in {"isVisible", "sendEnabled"}
        /\ pc' = "waitForFunction" =>
              /\ pc \in {"click", "press"}
              /\ clicks' = IF pc = "click" THEN 1 ELSE 0
              /\ presses' = IF pc = "press" THEN 1 ELSE 0

\* C18: in clickSend exactly one of the two submission paths executes per call:
\* the send control is clicked when it is visible and enabled, otherwise Enter is
\* pressed on the input; never both and never neither (a failed click is not
\* followed by an Enter keypress), and clickSend never raises.
C18_ExactlyOneSubmission == []C18_PathCounts /\ [][C18_SendStep]_vars

\* C18 witness: the send control was clicked, the click failed, and clickSend
\* returned without pressing Enter.
C18_Witness ==
    /\ fn = "runAtlasPrompt" /\ pc = "waitForFunction"
    /\ clicks = 1 /\ sendFailed /\ presses = 0


\* C19: every call of runAtlasPrompt eventually finishes: each waiting step
\* (document-ready wait, visibility waits, fill, reply-count wait, stability
\* polling) is given an explicit upper bound, a positive number of milliseconds,
\* for every timeout budget including 0.
C19_EveryWaitBounded ==
    fn = "runAtlasPrompt" =>
        /\ pc = "waitForLoadState" => LoadStateTimeoutMs > 0
        /\ pc = "waitFor" => timeout \in MinProbeMs..MaxProbeMs
        /\ pc = "fill" => FillTimeout(options.timeoutMs) > 0
        /\ pc = "waitForFunction" => Max(MinReplyWaitMs, options.timeoutMs) > 0
        /\ pc = "waitForTimeout" => PollMs > 0


\* the position of a step in the order of runAtlasPrompt
Stage(p) ==
    CASE p = "getPwAiModule" -> 1
      [] p \in {"browserStatus", "browserStart", "browserStatusAgain"} -> 2
      [] p = "createPage" -> 3
      [] p = "getPage" -> 4
      [] p = "waitForLoadState" -> 5
      [] p \in {"waitFor", "isEnabled"} -> 6
      [] p = "baselineCount" -> 7
      [] p = "fill" -> 8
      [] p \in {"isVisible", "sendEnabled", "click", "press"} -> 9
      [] p \in {"waitForFunction", "count"} -> 10
      [] p \in {"innerText", "waitForTimeout"} -> 11
      [] p = "closePage" -> 12
      [] OTHER -> 13

SandboxedError ==
    AtlasUnavailableError(<< "Atlas is not available in sandboxed sessions." >>)

C20_Prerequisites ==
    fn = "runAtlasPrompt" =>
        /\ IsSandboxed(options) =>
              /\ pc = "done" /\ outcome = Thrown(SandboxedError)
              /\ profile = NullProfile /\ pwModule = NullModule
              /\ statusCalls = 0 /\ startCalls = 0 /\ openCalls = 0
        /\ (openCalls >= 1 \/ pc = "createPage") =>
              /\ ~profile.isNull /\ ModuleUsable(pwModule) /\ cdpUrl # << >>
        /\ Stage(pc) \in 4..11 => openCalls = 1 /\ outcome = NoOutcome
        /\ Stage(pc) \in 7..11 => input >= 1
        /\ Stage(pc) \in 1..8 => ~filled /\ clicks + presses = 0
        /\ Stage(pc) \in 9..11 => filled
        /\ pc = "waitForFunction" => clicks + presses = 1
        /\ Stage(pc) \in 1..10 => message = -1
        /\ Stage(pc) = 11 => message >= 0
        /\ outcome.kind = "throw" => pc \in {"closePage", "done"}

C20_StepOrder ==
    (fn = "runAtlasPrompt" /\ pc \notin {"idle", "done"}) =>
        /\ Stage(pc') >= Stage(pc)
        /\ Stage(pc') > Stage(pc) + 1 =>
              /\ pc' \in {"closePage", "done"}
              /\ outcome'.kind = "throw" \/ Stage(pc) = 11
        /\ pc' = "fill" => pc = "baselineCount"
        /\ pc' = "count" => pc = "waitForFunction"

\* C20: runAtlasPrompt performs its steps in one fixed order and stops at the
\* first failing one: a sandboxed call is rejected before any collaborator is
\* called; no page is opened unless the profile resolved, the module loaded and a
\* non-empty connection URL was obtained; the baseline count is taken before the
\* fill; submission follows a located and filled input; reply detection follows
\* submission and the stability read follows the selection of a reply message.
C20_FixedStepOrder == []C20_Prerequisites /\ [][C20_StepOrder]_vars

\* C20 witness: a call went through every step, with the second selector as its
\* input, and returned after the page close was requested.
C20_Witness ==
    /\ RunDone /\ outcome.kind = "return"
    /\ openCalls = 1 /\ input = 2 /\ filled /\ message = 0 /\ closeCalls = 1
    /\ ~closeFailed

====
